---- MODULE Spec2Model ----
(***************************************************************************)
(* A model of transcribe_audio.py: convert_to_wav, transcribe_audio,       *)
(* process_audio_file and main (the ThreadPoolExecutor coordinator).       *)
(*                                                                         *)
(* Strings are sequences of one-character strings, so that slicing,        *)
(* sanitizing, formatting and os.path.splitext are computed as the code    *)
(* computes them.  Python's None is the value None below, which is not a   *)
(* sequence of characters.                                                 *)
(*                                                                         *)
(* The module has three entry points, and `entry` records which one a      *)
(* behaviour uses: the script itself (main, line 167), or a direct call    *)
(* of process_audio_file(args) or of transcribe_audio(audio_path, model).  *)
(***************************************************************************)
EXTENDS Integers, Sequences, FiniteSets, TLC

VARIABLES
    entry,        \* "main" | "process_audio_file" | "transcribe_audio"
    mainPc,       \* position of main(): load_model, list_files, submit, collect, raising, done, crashed, none
    fs,           \* audio_dir: file name -> the recording it holds (named by its original file name)
    audio_files,  \* main's list audio_files (line 112)
    pipeline,     \* environment: file name -> outcome of the 1st, 2nd, 3rd run of the pipeline on it
    args,         \* task -> the argument tuple given to process_audio_file (idx, audio_file)
    pc,           \* task -> position inside process_audio_file / transcribe_audio
    attempt,      \* task -> loop variable `attempt` (line 87)
    calls,        \* task -> number of calls of transcribe_audio made so far
    temp_wav,     \* task -> local temp_wav of the running transcribe_audio call (line 45)
    ret,          \* task -> value the running transcribe_audio call is about to return
    result,       \* task -> outcome of the future / call: pending, a returned 4-tuple, or an exception
    tmpfiles,     \* temporary files that exist: <<task, call number>> names the file mkstemp made
    yielded,      \* futures as_completed has already yielded to main
    results,      \* main's list results (line 132): sequence of <<idx, line>>
    renames,      \* os.rename calls main has made: sequence of [src, dst, ok]
    out,          \* the transcript file: [written, lines]
    report,       \* main's last report to the operator
    history,      \* task -> the values its calls of transcribe_audio have returned, in order
    wav,          \* environment: file name -> what the recognizer answers for its audio, chunk by chunk
    session       \* task -> the recognition session of the running transcribe_audio call (lines 51-66)

vars == <<entry, mainPc, fs, audio_files, pipeline, args, pc, attempt, calls,
          temp_wav, ret, result, tmpfiles, yielded, results, renames, out, report,
          history, wav, session>>

(***************************************************************************)
(* Bounds and program constants                                            *)
(***************************************************************************)
\* Largest number of entries of audio_dir.
MaxFiles == 3

\* range(3), line 87.
MaxAttempts == 3

\* transcription[:50], line 90.
PrefixLen == 50
\* KaldiRecognizer(model, 16000), line 51: the rate the recognizer expects.
SampleRate == 16000
\* Bound on the chunks of a recording given to transcribe_audio directly.
MaxChunks == 2

None == <<"None">>

(***************************************************************************)
(* Characters and strings                                                  *)
(***************************************************************************)
LowerLetters == {"a", "b", "c", "d", "e", "f", "g", "h", "i", "l", "m", "n", "o",
                 "p", "r", "s", "t", "v", "w", "x"}
UpperLetters == {"A", "M", "P", "V", "W"}
\* A letter outside ASCII: str.isalnum() is true of it.
OtherLetters == {"é"}
DigitChars == {"0", "1", "2", "3", "4", "5", "6", "7", "8", "9"}

\* str.isalnum() of one character.
IsAlnum(c) == c \in LowerLetters \cup UpperLetters \cup OtherLetters \cup DigitChars

\* str.lower() of one character.
LowerChar(c) ==
    CASE c = "A" -> "a"
      [] c = "M" -> "m"
      [] c = "P" -> "p"
      [] c = "V" -> "v"
      [] c = "W" -> "w"
      [] OTHER -> c

Lower(s) == [i \in 1..Len(s) |-> LowerChar(s[i])]

EndsWith(s, suffix) ==
    /\ Len(suffix) <= Len(s)
    /\ SubSeq(s, Len(s) - Len(suffix) + 1, Len(s)) = suffix

\* audio_ext, line 111.
audio_ext == { <<".", "m", "4", "a">>, <<".", "m", "p", "3">>, <<".", "w", "a", "v">>,
               <<".", "o", "g", "g">>, <<".", "f", "l", "a", "c">> }

\* f.lower().endswith(audio_ext), line 114.
HasAudioExt(f) == \E e \in audio_ext : EndsWith(Lower(f), e)

\* s[:n]
Prefix(s, n) == SubSeq(s, 1, IF Len(s) < n THEN Len(s) ELSE n)

\* SafeChar without the replacement: every character is kept.
SafeCharKeepsAll(c) == c

\* The character line 90 keeps or replaces.
SafeChar(c) == IF IsAlnum(c) \/ c \in {" ", "-", "_", "."} THEN c ELSE "_"

\* "".join(c if c.isalnum() or c in ' -_.' else '_' for c in transcription[:50]), line 90.
SafeName(transcription) ==
    LET p == Prefix(transcription, PrefixLen)
    IN  [i \in 1..Len(p) |-> SafeChar(p[i])]

DigitOf(d) ==
    CASE d = 0 -> "0" [] d = 1 -> "1" [] d = 2 -> "2" [] d = 3 -> "3" [] d = 4 -> "4"
      [] d = 5 -> "5" [] d = 6 -> "6" [] d = 7 -> "7" [] d = 8 -> "8" [] d = 9 -> "9"

RECURSIVE Decimal(_)
Decimal(v) == IF v < 10 THEN <<DigitOf(v)>> ELSE Decimal(v \div 10) \o <<DigitOf(v % 10)>>

\* f"{v:02d}" for v >= 0, lines 91 and 145.
Fmt02d(v) == IF v < 10 THEN <<"0">> \o Decimal(v) ELSE Decimal(v)

\* os.path.splitext(name)[1] for a name without directory separators: the
\* part from the last dot on, unless only dots precede that dot.
SplitextExt(name) ==
    LET dots == {i \in 1..Len(name) : name[i] = "."}
    IN  IF dots = {} THEN <<>>
        ELSE LET d == CHOOSE i \in dots : \A j \in dots : j <= i
             IN  IF \E j \in 1..(d - 1) : name[j] # "."
                 THEN SubSeq(name, d, Len(name))
                 ELSE <<>>

\* Truthy as `is not None` would have it: the empty string passes.
TruthyIsNotNone(x) == x # None

\* Truth value of `transcription := transcribe_audio(...)` (line 88) and of
\* `if transcription` / `if new_name` (lines 144, 146).
Truthy(x) == x # None /\ x # <<>>

\* str.strip() (lines 62, 65, 68): leading and trailing blanks removed.
RECURSIVE StripLeft(_)
StripLeft(s) ==
    IF s # <<>> /\ Head(s) = " " THEN StripLeft(Tail(s)) ELSE s

RECURSIVE StripRight(_)
StripRight(s) ==
    IF s # <<>> /\ s[Len(s)] = " " THEN StripRight(SubSeq(s, 1, Len(s) - 1)) ELSE s

Strip(s) == StripRight(StripLeft(s))

\* ' '.join(results), line 68.
RECURSIVE JoinSpace(_)
JoinSpace(texts) ==
    IF texts = <<>> THEN <<>>
    ELSE IF Len(texts) = 1 THEN texts[1]
    ELSE texts[1] \o <<" ">> \o JoinSpace(Tail(texts))

\* results.append on every result, blank or not.
AccumulateAll(collected, text) == Append(collected, text)

\* `if text := ....get('text', '').strip(): results.append(text)`, lines
\* 62-63 and 65-66: the stripped text is appended when it is not empty.
Accumulate(collected, text) ==
    IF Strip(text) # <<>> THEN Append(collected, Strip(text)) ELSE collected

(***************************************************************************)
(* The environment: the recordings, and what the pipeline does with them   *)
(***************************************************************************)
a_wav  == <<"a", ".", "w", "a", "v">>
b_mp3  == <<"b", ".", "m", "p", "3">>
c_flac == <<"c", ".", "f", "l", "a", "c">>
n_txt  == <<"n", ".", "t", "x", "t">>

\* The file names audio_dir may hold.
Catalogue == {a_wav, b_mp3, c_flac, n_txt}

\* The first utterance and the rest of b.mp3; together they are longer than
\* the PrefixLen characters a file name keeps.
ItsOn == <<"i", "t", "'", "s", " ", "o", "n">>
Refrain == [i \in 1..(PrefixLen - 6) |-> IF i % 3 = 0 THEN " " ELSE "o"]

\* What the recognizer hears in a recording when an attempt goes through.
SpeechOf(f) ==
    CASE f = a_wav -> <<"h", "e", "l", "l", "o", " ", "w", "o", "r", "l", "d">>
      [] f = b_mp3 -> ItsOn \o <<" ">> \o Refrain
      [] OTHER     -> <<"n", "é", "e", "?">>

\* AcceptWaveform returned False for a chunk: no utterance has ended in it.
NoUtterance == <<"NoUtterance">>

\* The 'text' values the recognizer may give for an utterance or at the end.
RawTexts == {<<>>, <<"h", "i">>, <<" ", "o", "n", " ">>}

\* What AcceptWaveform/Result answer for one chunk of readframes(8000).
Responses == {NoUtterance} \cup RawTexts

\* A recording as the recognizer answers it: one response per chunk of its
\* 16 kHz WAV, and the 'text' of FinalResult.
Recording(chunks, final) == [chunks |-> chunks, final |-> final]

\* The recordings of the catalogue's files.
RecordingOf(f) ==
    CASE f = a_wav -> Recording(<<NoUtterance, <<"h", "e", "l", "l", "o", " ">>, NoUtterance>>,
                                <<"w", "o", "r", "l", "d">>)
      [] f = b_mp3 -> Recording(<<ItsOn>>, Refrain)
      [] OTHER     -> Recording(<<>>, <<" ", "n", "é", "e", "?">>)

\* Any recording of at most MaxChunks chunks.
Recordings ==
    {Recording(c, f) : c \in UNION {[1..n -> Responses] : n \in 0..MaxChunks}, f \in RawTexts}

\* The headers wave.open may find in the temporary WAV (lines 55-56 read
\* getnchannels and getsampwidth; getframerate is the rate of the audio).
WavFormat(ch, width, rate) == [nchannels |-> ch, sampwidth |-> width, framerate |-> rate]
WavFormats ==
    {WavFormat(1, 2, SampleRate), WavFormat(1, 2, 44100),
     WavFormat(2, 2, SampleRate), WavFormat(1, 1, SampleRate)}

\* An attempt either ends without a usable transcript or yields the speech.
Outcomes == {"fail", "text"}

\* The ways an attempt ends without a usable transcript:
\*   mkstemp : tempfile.mkstemp / os.close raises (line 20-21), no file made
\*   decode  : AudioSegment.from_file or export raises (lines 24-37) after
\*             mkstemp has made the file
\*   format  : the WAV is not mono 16-bit (lines 56-58)
\*   stream  : wave.open, readframes, AcceptWaveform or json.loads raises
\*   empty   : the recognizer hears nothing, ' '.join(results) is ''
ConvertFailKinds == {"mkstemp", "decode"}
RecognizeFailKinds == {"format", "stream", "empty"}

AudioNames(dir) == {f \in dir : HasAudioExt(f)}

\* Orders in which os.listdir may return the names of a directory.
Listings(names) ==
    {s \in [1..Cardinality(names) -> names] : \A i, j \in 1..Cardinality(names) : s[i] = s[j] => i = j}

\* [f for f in listing if ... f.lower().endswith(audio_ext)], lines 112-115.
RECURSIVE FilterAudio(_)
FilterAudio(listing) ==
    IF listing = <<>> THEN <<>>
    ELSE (IF HasAudioExt(Head(listing)) THEN <<Head(listing)>> ELSE <<>>)
         \o FilterAudio(Tail(listing))

(***************************************************************************)
(* Tasks: one call of process_audio_file each                              *)
(***************************************************************************)
\* The first element of the argument tuple: the int that enumerate yields
\* (line 139), or a pair (position, total) as lines 85, 91, 92 index it.
IntIdx(i) == [shape |-> "int", v |-> <<i>>]
PairIdx(i, n) == [shape |-> "pair", v |-> <<i, n>>]

\* idx[0] and idx[1] are defined for a sequence of length two, and raise
\* TypeError ('int' object is not subscriptable) for an int.
Subscriptable(idx) == idx.shape = "pair"

Tasks == DOMAIN pc

NoArgs == [idx |-> IntIdx(0), audio_file |-> <<>>]

Pending == [kind |-> "pending", idx |-> 0, audio_file |-> <<>>,
            new_name |-> None, transcription |-> None]

Returned(i, f, new_name, transcription) ==
    [kind |-> "value", idx |-> i, audio_file |-> f,
     new_name |-> new_name, transcription |-> transcription]

Raised(f) == [kind |-> "exception", idx |-> 0, audio_file |-> f,
              new_name |-> None, transcription |-> None]

\* A call that has ended: process_audio_file returned or raised, or a direct
\* call of transcribe_audio returned.
Finished == {"returned", "raised", "ta_returned"}

\* f"{idx[0]+1:02d} - {safe_name}{os.path.splitext(audio_file)[1]}", line 91.
NewName(i, transcription, audio_file) ==
    Fmt02d(i + 1) \o <<" ", "-", " ">> \o SafeName(transcription) \o SplitextExt(audio_file)

\* The outcome the environment gives the running call of transcribe_audio.
Outcome(t) == pipeline[args[t].audio_file][calls[t]]

(***************************************************************************)
(* process_audio_file (lines 81-95)                                        *)
(***************************************************************************)
\* Lines 83-85: unpack args, build audio_path, print the progress line, which
\* evaluates idx[0] and idx[1].
Begin(t) ==
    /\ pc[t] = "queued"
    /\ IF Subscriptable(args[t].idx)
       THEN /\ pc' = [pc EXCEPT ![t] = "loop"]
            /\ attempt' = [attempt EXCEPT ![t] = 0]
            /\ UNCHANGED result
       ELSE /\ pc' = [pc EXCEPT ![t] = "raised"]
            /\ result' = [result EXCEPT ![t] = Raised(args[t].audio_file)]
            /\ UNCHANGED attempt
    /\ UNCHANGED <<history, wav, session, entry, mainPc, fs, audio_files, pipeline, args, calls, temp_wav,
                   ret, tmpfiles, yielded, results, renames, out, report>>

\* Line 87, `for attempt in range(3)`: the next call of transcribe_audio
\* (line 88, entering at line 45), or line 95 when the range is exhausted.
Loop(t) ==
    /\ pc[t] = "loop"
    /\ IF attempt[t] < MaxAttempts
       THEN /\ pc' = [pc EXCEPT ![t] = "convert"]
            /\ calls' = [calls EXCEPT ![t] = @ + 1]
            /\ temp_wav' = [temp_wav EXCEPT ![t] = None]
            /\ UNCHANGED result
       ELSE /\ pc' = [pc EXCEPT ![t] = "returned"]
            /\ result' = [result EXCEPT ![t] =
                             Returned(args[t].idx.v[1], args[t].audio_file, None, None)]
            /\ UNCHANGED <<calls, temp_wav>>
    /\ UNCHANGED <<history, wav, session, entry, mainPc, fs, audio_files, pipeline, args, attempt, ret,
                   tmpfiles, yielded, results, renames, out, report>>

(***************************************************************************)
(* transcribe_audio (lines 43-79) and convert_to_wav (lines 16-41)         *)
(***************************************************************************)
\* The state of a call before line 51 is reached.
NoSession ==
    [open |-> FALSE, format |-> WavFormat(0, 0, 0), fault |-> "none",
     fed |-> <<>>, heard |-> <<>>, results |-> <<>>, finals |-> 0]

\* `wf.getnchannels() != 1 or wf.getsampwidth() != 2` is false, line 56.
PassesCheck(fmt) == ~(fmt.nchannels # 1 \/ fmt.sampwidth # 2)

\* What the recognizer answers: in an attempt that hears nothing every text
\* is empty.
Heard(fault, answer) ==
    IF fault = "empty" /\ answer # NoUtterance THEN <<>> ELSE answer

\* The temporary file mkstemp makes in call number k of task t.
TempPath(t, k) == <<t, k>>

\* Lines 46-49 with convert_to_wav: mkstemp makes the file, from_file and
\* export fill it; on an exception convert_to_wav returns None (line 41), and
\* transcribe_audio returns None at line 49 with temp_wav still None.
Convert(t) ==
    /\ pc[t] = "convert"
    /\ \E how \in {"ok"} \cup (IF Outcome(t) = "fail" THEN ConvertFailKinds ELSE {}) :
          /\ tmpfiles' = IF how = "mkstemp" THEN tmpfiles
                         ELSE tmpfiles \cup {TempPath(t, calls[t])}
          /\ temp_wav' = [temp_wav EXCEPT ![t] =
                             IF how = "ok" THEN TempPath(t, calls[t]) ELSE None]
          /\ ret' = [ret EXCEPT ![t] = None]
          /\ pc' = [pc EXCEPT ![t] = IF how = "ok" THEN "recognize" ELSE "finally"]
    /\ session' = [session EXCEPT ![t] = NoSession]
    /\ UNCHANGED <<history, wav, entry, mainPc, fs, audio_files, pipeline, args, attempt, calls,
                   result, yielded, results, renames, out, report>>

\* Lines 51-58: the recognizer and the results list are made, the WAV is
\* opened and its header is checked. A header that fails the check returns
\* None (line 58); an exception of wave.open returns None (line 72).
Recognize(t) ==
    /\ pc[t] = "recognize"
    /\ \E how \in (IF Outcome(t) = "fail" THEN RecognizeFailKinds ELSE {"none"}),
          fmt \in WavFormats, opens \in BOOLEAN :
          /\ (how = "format") = ~PassesCheck(fmt)
          /\ opens \/ how = "stream"
          /\ session' = [session EXCEPT ![t] =
                             IF opens
                             THEN [NoSession EXCEPT !.open = TRUE, !.format = fmt, !.fault = how]
                             ELSE [NoSession EXCEPT !.fault = how]]
          /\ pc' = [pc EXCEPT ![t] = IF opens /\ PassesCheck(fmt) THEN "feed" ELSE "finally"]
    /\ UNCHANGED <<history, wav, entry, mainPc, fs, audio_files, pipeline, args, attempt, calls,
                   temp_wav, ret, result, tmpfiles, yielded, results, renames, out, report>>

\* Lines 60-63, one turn of `while chunk := wf.readframes(8000)`: an empty
\* read ends the loop; otherwise the chunk goes to AcceptWaveform and, when an
\* utterance has ended, its text is accumulated. An exception discards the
\* results and returns None (line 72).
Feed(t) ==
    /\ pc[t] = "feed"
    /\ LET chunks == wav[args[t].audio_file].chunks
           k      == Len(session[t].fed) + 1
       IN  IF k > Len(chunks)
           THEN /\ pc' = [pc EXCEPT ![t] = "drain"]
                /\ UNCHANGED session
           ELSE \E raises \in (IF session[t].fault = "stream" THEN BOOLEAN ELSE {FALSE}) :
                   IF raises
                   THEN /\ pc' = [pc EXCEPT ![t] = "finally"]
                        /\ UNCHANGED session
                   ELSE LET answer == Heard(session[t].fault, chunks[k])
                        IN  /\ session' = [session EXCEPT
                                              ![t].fed = Append(@, k),
                                              ![t].heard = Append(@, answer),
                                              ![t].results = IF answer = NoUtterance THEN @
                                                             ELSE Accumulate(@, answer)]
                            /\ UNCHANGED pc
    /\ UNCHANGED <<history, wav, entry, mainPc, fs, audio_files, pipeline, args, attempt, calls,
                   temp_wav, ret, result, tmpfiles, yielded, results, renames, out, report>>

\* Lines 65-68: FinalResult is read once and accumulated like the others,
\* and the call's value is ' '.join(results).strip(). An exception returns
\* None (line 72).
Drain(t) ==
    /\ pc[t] = "drain"
    /\ IF session[t].fault = "stream"
       THEN UNCHANGED <<session, ret>>
       ELSE LET answer == Heard(session[t].fault, wav[args[t].audio_file].final)
                joined == Accumulate(session[t].results, answer)
            IN  /\ session' = [session EXCEPT ![t].finals = @ + 1,
                                              ![t].heard = Append(@, answer),
                                              ![t].results = joined]
                /\ ret' = [ret EXCEPT ![t] = Strip(JoinSpace(joined))]
    /\ pc' = [pc EXCEPT ![t] = "finally"]
    /\ UNCHANGED <<history, wav, entry, mainPc, fs, audio_files, pipeline, args, attempt, calls,
                   temp_wav, result, tmpfiles, yielded, results, renames, out, report>>

\* Lines 74-79: the finally clause removes temp_wav when it is set and exists;
\* an OSError of os.remove is swallowed. Then the call returns.
Finally(t) ==
    /\ pc[t] = "finally"
    /\ \E removed \in (IF temp_wav[t] # None /\ temp_wav[t] \in tmpfiles
                       THEN BOOLEAN ELSE {FALSE}) :
          tmpfiles' = IF removed THEN tmpfiles \ {temp_wav[t]} ELSE tmpfiles
    /\ pc' = [pc EXCEPT ![t] = IF entry = "transcribe_audio" THEN "ta_returned" ELSE "check"]
    /\ history' = [history EXCEPT ![t] = Append(@, ret[t])]
    /\ UNCHANGED <<wav, session, entry, mainPc, fs, audio_files, pipeline, args, attempt, calls,
                   temp_wav, ret, result, yielded, results, renames, out, report>>

\* Lines 88-93: a truthy transcription returns the 4-tuple, anything else
\* prints "Attempt n failed" and goes to the next iteration.
Check(t) ==
    /\ pc[t] = "check"
    /\ IF Truthy(ret[t])
       THEN /\ pc' = [pc EXCEPT ![t] = "returned"]
            /\ result' = [result EXCEPT ![t] =
                             Returned(args[t].idx.v[1], args[t].audio_file,
                                      NewName(args[t].idx.v[1], ret[t], args[t].audio_file),
                                      ret[t])]
            /\ UNCHANGED attempt
       ELSE /\ pc' = [pc EXCEPT ![t] = "loop"]
            /\ attempt' = [attempt EXCEPT ![t] = @ + 1]
            /\ UNCHANGED result
    /\ UNCHANGED <<history, wav, session, entry, mainPc, fs, audio_files, pipeline, args, calls, temp_wav,
                   ret, tmpfiles, yielded, results, renames, out, report>>

(***************************************************************************)
(* main (lines 97-165)                                                     *)
(***************************************************************************)
\* LoadModel without the `return` of line 108: the failure is printed and
\* main goes on.
LoadModelNoReturn ==
    /\ mainPc = "load_model"
    /\ \E loaded \in BOOLEAN :
          /\ mainPc' = "list_files"
          /\ report' = IF loaded THEN report ELSE "model_load_failed"
    /\ UNCHANGED <<history, wav, session, entry, fs, audio_files, pipeline, args, pc, attempt, calls, temp_wav,
                   ret, result, tmpfiles, yielded, results, renames, out>>

\* Lines 101-108: Model(model_path) either loads or raises; a failure is
\* printed and main returns.
LoadModel ==
    /\ mainPc = "load_model"
    /\ \E loaded \in BOOLEAN :
          /\ mainPc' = IF loaded THEN "list_files" ELSE "done"
          /\ report' = IF loaded THEN report ELSE "model_load_failed"
    /\ UNCHANGED <<history, wav, session, entry, fs, audio_files, pipeline, args, pc, attempt, calls, temp_wav,
                   ret, result, tmpfiles, yielded, results, renames, out>>

\* Lines 110-129: list audio_dir in whatever order os.listdir gives, keep the
\* audio files; with none, report and return.
ListFiles ==
    /\ mainPc = "list_files"
    /\ \E listing \in Listings(DOMAIN fs) :
          /\ audio_files' = FilterAudio(listing)
          /\ mainPc' = IF FilterAudio(listing) = <<>> THEN "done" ELSE "submit"
          /\ report' = IF FilterAudio(listing) = <<>> THEN "no_audio_files" ELSE report
    /\ UNCHANGED <<history, wav, session, entry, fs, pipeline, args, pc, attempt, calls, temp_wav, ret, result,
                   tmpfiles, yielded, results, renames, out>>

\* The tuple main submits for position i (0-based) of audio_files, line 137:
\* (i, f, audio_dir, model) with i the int from enumerate.
SubmittedArgs(i) == [idx |-> IntIdx(i), audio_file |-> audio_files[i + 1]]

\* Lines 134-140: executor.submit for the next file of the enumeration. The
\* default pool has min(32, cpu_count + 4) >= 5 workers, more than there are
\* files here, so a submitted task can start at once.
Submit ==
    /\ mainPc = "submit"
    /\ LET i == Cardinality({t \in Tasks : pc[t] # "unsubmitted"})
       IN  /\ args' = [args EXCEPT ![i] = SubmittedArgs(i)]
           /\ pc' = [pc EXCEPT ![i] = "queued"]
           /\ mainPc' = IF i + 1 = Len(audio_files) THEN "collect" ELSE "submit"
    /\ UNCHANGED <<history, wav, session, entry, fs, audio_files, pipeline, attempt, calls, temp_wav, ret,
                   result, tmpfiles, yielded, results, renames, out, report>>

\* os.rename(src, dst) in audio_dir: a missing source raises; otherwise the
\* entry moves and replaces whatever dst named.
RenameIn(dir, src, dst) ==
    [f \in (DOMAIN dir \ {src}) \cup {dst} |-> IF f = dst THEN dir[src] ELSE dir[f]]

\* f"{idx+1:02d}. {transcription}", line 145.
Line(i, transcription) == Fmt02d(i + 1) \o <<".", " ">> \o transcription

\* Lines 142-154, one iteration of `for future in as_completed(futures)`:
\* future.result() returns the task's 4-tuple or re-raises the task's
\* exception. The call is not inside a try, so the exception leaves the loop.
Collect ==
    /\ mainPc = "collect"
    /\ \E t \in Tasks \ yielded :
          /\ pc[t] \in Finished
          /\ yielded' = yielded \cup {t}
          /\ IF result[t].kind = "exception"
             THEN /\ mainPc' = "raising"
                  /\ UNCHANGED <<results, renames, fs>>
             ELSE /\ mainPc' = mainPc
                  /\ results' = IF Truthy(result[t].transcription)
                                THEN Append(results, <<result[t].idx,
                                                       Line(result[t].idx, result[t].transcription)>>)
                                ELSE results
                  /\ IF Truthy(result[t].transcription) /\ Truthy(result[t].new_name)
                     THEN \E ok \in (IF result[t].audio_file \in DOMAIN fs THEN BOOLEAN ELSE {FALSE}) :
                             /\ renames' = Append(renames, [src |-> result[t].audio_file,
                                                            dst |-> result[t].new_name,
                                                            ok |-> ok])
                             /\ fs' = IF ok THEN RenameIn(fs, result[t].audio_file, result[t].new_name)
                                      ELSE fs
                     ELSE UNCHANGED <<renames, fs>>
    /\ UNCHANGED <<history, wav, session, entry, audio_files, pipeline, args, pc, attempt, calls, temp_wav, ret,
                   result, tmpfiles, out, report>>

\* sorted(results, key=lambda x: x[0]), line 161: a stable sort by idx.
RECURSIVE InsertByIdx(_, _)
InsertByIdx(sorted, x) ==
    IF sorted = <<>> THEN <<x>>
    ELSE IF Head(sorted)[1] <= x[1] THEN <<Head(sorted)>> \o InsertByIdx(Tail(sorted), x)
         ELSE <<x>> \o sorted

RECURSIVE SortedByIdx(_)
SortedByIdx(seq) ==
    IF seq = <<>> THEN <<>>
    ELSE InsertByIdx(SortedByIdx(SubSeq(seq, 1, Len(seq) - 1)), seq[Len(seq)])

\* The lines written after the header and the "Generated on" line, line 161-162.
WrittenLines(res) == [i \in 1..Len(res) |-> SortedByIdx(res)[i][2]]

\* Leaving the `with ThreadPoolExecutor()` block (line 133): __exit__ calls
\* shutdown(wait=True), which returns once every task has ended. With an
\* exception pending it then leaves main (nothing catches it); otherwise
\* lines 157-165 write the transcript file or report that there is none.
ExitPool ==
    /\ \/ mainPc = "raising"
       \/ mainPc = "collect" /\ yielded = Tasks
    /\ \A t \in Tasks : pc[t] \in Finished
    /\ IF mainPc = "raising"
       THEN /\ mainPc' = "crashed"
            /\ report' = "traceback"
            /\ UNCHANGED out
       ELSE /\ mainPc' = "done"
            /\ out' = IF results # <<>>
                      THEN [written |-> TRUE, lines |-> WrittenLines(results)]
                      ELSE out
            /\ report' = IF results # <<>> THEN "saved" ELSE "no_transcriptions"
    /\ UNCHANGED <<history, wav, session, entry, fs, audio_files, pipeline, args, pc, attempt, calls, temp_wav,
                   ret, result, tmpfiles, yielded, results, renames>>

(***************************************************************************)
(* Initial states and the next-state relation                              *)
(***************************************************************************)
NoFile == [written |-> FALSE, lines |-> <<>>]

\* The script is run: audio_dir holds at most MaxFiles of the catalogue's
\* files, and the environment has fixed how each run of the pipeline on each
\* audio file will end.
InitMain ==
    /\ entry = "main"
    /\ mainPc = "load_model"
    /\ \E dir \in {d \in SUBSET Catalogue : Cardinality(d) <= MaxFiles} :
          /\ fs = [f \in dir |-> f]
          /\ pipeline \in [AudioNames(dir) -> [1..MaxAttempts -> Outcomes]]
          /\ pc = [t \in 0..(Cardinality(AudioNames(dir)) - 1) |-> "unsubmitted"]
    /\ audio_files = <<>>
    /\ args = [t \in DOMAIN pc |-> NoArgs]
    /\ attempt = [t \in DOMAIN pc |-> 0]
    /\ calls = [t \in DOMAIN pc |-> 0]
    /\ temp_wav = [t \in DOMAIN pc |-> None]
    /\ ret = [t \in DOMAIN pc |-> None]
    /\ result = [t \in DOMAIN pc |-> Pending]
    /\ history = [t \in DOMAIN pc |-> <<>>]
    /\ wav = [f \in DOMAIN pipeline |-> RecordingOf(f)]
    /\ session = [t \in DOMAIN pc |-> NoSession]
    /\ tmpfiles = {}
    /\ yielded = {}
    /\ results = <<>>
    /\ renames = <<>>
    /\ out = NoFile
    /\ report = "none"

\* The first element of args in a direct call: an int, or a pair.
IdxInputs ==
    {IntIdx(i) : i \in 0..(MaxFiles - 1)}
        \cup {PairIdx(i, n) : i \in 0..(MaxFiles - 1), n \in 1..MaxFiles}

\* process_audio_file(args) or transcribe_audio(audio_path, model) is called
\* directly on one audio file (transcribe_audio takes no idx).
InitCall ==
    /\ entry \in {"process_audio_file", "transcribe_audio"}
    /\ mainPc = "none"
    /\ \E f \in AudioNames(Catalogue) :
          /\ fs = [g \in {f} |-> g]
          /\ audio_files = <<f>>
          /\ pipeline \in [{f} -> [1..MaxAttempts -> Outcomes]]
          /\ \E idx \in (IF entry = "transcribe_audio" THEN {IntIdx(0)} ELSE IdxInputs) :
                args = [t \in {0} |-> [idx |-> idx, audio_file |-> f]]
    /\ pc = [t \in {0} |-> IF entry = "transcribe_audio" THEN "convert" ELSE "queued"]
    /\ attempt = [t \in {0} |-> 0]
    /\ calls = [t \in {0} |-> IF entry = "transcribe_audio" THEN 1 ELSE 0]
    /\ temp_wav = [t \in {0} |-> None]
    /\ ret = [t \in {0} |-> None]
    /\ result = [t \in {0} |-> Pending]
    /\ history = [t \in {0} |-> <<>>]
    /\ wav \in [DOMAIN pipeline -> IF entry = "transcribe_audio" THEN Recordings
                                   ELSE {RecordingOf(f) : f \in DOMAIN pipeline}]
    /\ session = [t \in {0} |-> NoSession]
    /\ tmpfiles = {}
    /\ yielded = {}
    /\ results = <<>>
    /\ renames = <<>>
    /\ out = NoFile
    /\ report = "none"

Init == InitMain \/ InitCall

Next ==
    \/ LoadModel
    \/ ListFiles
    \/ Submit
    \/ Collect
    \/ ExitPool
    \/ \E t \in Tasks : Begin(t)
    \/ \E t \in Tasks : Loop(t)
    \/ \E t \in Tasks : Convert(t)
    \/ \E t \in Tasks : Recognize(t)
    \/ \E t \in Tasks : Feed(t)
    \/ \E t \in Tasks : Drain(t)
    \/ \E t \in Tasks : Finally(t)
    \/ \E t \in Tasks : Check(t)

Spec == Init /\ [][Next]_vars

(***************************************************************************)
(* Properties                                                              *)
(***************************************************************************)
FileOf(t) == args[t].audio_file

\* Call number k of transcribe_audio in task t has returned.
CallReturned(t, k) ==
    /\ k \in 1..calls[t]
    /\ k < calls[t] \/ pc[t] \notin {"convert", "recognize", "finally"}

\* Some run of the pipeline on f, among the MaxAttempts a task makes, yields text.
PipelineSucceeds(f) == \E k \in 1..MaxAttempts : pipeline[f][k] = "text"

\* In a run of main every task ends at line 85 (idx is an int there), so no
\* task calls transcribe_audio, no future holds a value, and main appends no
\* result, renames nothing and writes no transcript file.
MainNeverReceivesAResult ==
    entry = "main" =>
        /\ \A t \in Tasks : pc[t] \in {"unsubmitted", "queued", "raised"} /\ calls[t] = 0
        /\ results = <<>>
        /\ renames = <<>>
        /\ ~out.written
        /\ \A f \in DOMAIN fs : fs[f] = f

\* A direct call of process_audio_file with a pair as idx makes its calls of
\* transcribe_audio in order, stops at the first that yields text and returns
\* it; with no such call it makes MaxAttempts calls and returns (None, None).
RetryLoopOnPairIdx ==
    \A t \in Tasks :
        (entry = "process_audio_file" /\ Subscriptable(args[t].idx)) =>
            /\ calls[t] <= MaxAttempts
            /\ \A k \in 1..(calls[t] - 1) : pipeline[FileOf(t)][k] = "fail"
            /\ pc[t] \in Finished =>
                  /\ result[t].kind = "value"
                  /\ IF pipeline[FileOf(t)][calls[t]] = "text"
                     THEN result[t].transcription = SpeechOf(FileOf(t))
                     ELSE /\ calls[t] = MaxAttempts
                          /\ result[t].transcription = None
                          /\ result[t].new_name = None

\* C2: a task whose pipeline fails on attempts 1 and 2 and succeeds on attempt
\* 3 makes exactly 3 calls of transcribe_audio and returns the transcript of
\* attempt 3.
C2_ThirdAttemptReturned ==
    \A t \in Tasks :
        (/\ entry # "transcribe_audio"
         /\ pc[t] \in Finished
         /\ pipeline[FileOf(t)] = <<"fail", "fail", "text">>)
            => /\ calls[t] = 3
               /\ result[t].kind = "value"
               /\ result[t].transcription = SpeechOf(FileOf(t))

\* C3: a task whose pipeline fails on all 3 attempts returns a result with
\* null transcript and null derived filename, and no task makes a 4th attempt.
C3_ExhaustedReturnsNulls ==
    \A t \in Tasks :
        /\ calls[t] <= 3
        /\ (/\ entry # "transcribe_audio"
            /\ pc[t] \in Finished
            /\ pipeline[FileOf(t)] = <<"fail", "fail", "fail">>)
               => /\ calls[t] = 3
                  /\ result[t].kind = "value"
                  /\ result[t].transcription = None
                  /\ result[t].new_name = None

\* C4: in every result process_audio_file returns, the derived filename is
\* non-null iff the transcript is non-null and non-empty, and both are null
\* exactly when all the attempts were made and none gave non-empty text.
C4_NameIffTranscript ==
    \A t \in Tasks :
        result[t].kind = "value" =>
            /\ result[t].new_name # None
                  <=> (result[t].transcription # None /\ result[t].transcription # <<>>)
            /\ (result[t].new_name = None /\ result[t].transcription = None)
                  <=> /\ Len(history[t]) = MaxAttempts
                      /\ \A k \in 1..MaxAttempts :
                            history[t][k] = None \/ history[t][k] = <<>>

\* C4 witness: a result with a derived filename, returned after an attempt
\* that gave an empty transcript.
C4_Witness ==
    \E t \in Tasks :
        /\ result[t].kind = "value"
        /\ result[t].new_name # None
        /\ Len(history[t]) > 1
        /\ history[t][1] = <<>>

\* C5: no error of one file's task reaches the coordinator, and at the end
\* of a run every file whose pipeline succeeds has been renamed and has its
\* line in the transcript file.
C5_ErrorsContained ==
    entry = "main" =>
        /\ mainPc \notin {"raising", "crashed"}
        /\ (mainPc = "done" /\ audio_files # <<>>) =>
              \A i \in 1..Len(audio_files) :
                  PipelineSucceeds(audio_files[i]) =>
                      /\ \E r \in 1..Len(renames) : renames[r].src = audio_files[i]
                      /\ \E l \in 1..Len(out.lines) :
                            out.lines[l] = Line(i - 1, SpeechOf(audio_files[i]))

C11_ModelLoadFailureAborts ==
    (entry = "main" /\ report = "model_load_failed") =>
        /\ mainPc = "done"
        /\ audio_files = <<>>
        /\ \A t \in Tasks : pc[t] = "unsubmitted" /\ result[t] = Pending
        /\ renames = <<>>
        /\ \A f \in DOMAIN fs : fs[f] = f
        /\ ~out.written

\* C11 witness: the model failed to load in a directory that holds audio files.
C11_Witness ==
    /\ entry = "main"
    /\ report = "model_load_failed"
    /\ AudioNames(DOMAIN fs) # {}

\* The task main submits for file f, if any.
TaskOf(f) == {t \in Tasks : pc[t] # "unsubmitted" /\ FileOf(t) = f}

\* C12: with a.wav (speech "hello world"), b.mp3 (conversion always fails)
\* and c.flac (never a transcript) in audio_dir, a run renames a.wav to
\* "01 - hello world.wav", writes the line "01. hello world", and leaves
\* b.mp3 and c.flac unrenamed and out of the transcript after 3 attempts each.
C12_ConcreteScenario ==
    (/\ entry = "main"
     /\ mainPc \in {"done", "crashed"}
     /\ {audio_files[i] : i \in 1..Len(audio_files)} = {a_wav, b_mp3, c_flac}
     /\ pipeline[a_wav][1] = "text"
     /\ pipeline[b_mp3] = <<"fail", "fail", "fail">>
     /\ pipeline[c_flac] = <<"fail", "fail", "fail">>)
        => /\ DOMAIN fs = {b_mp3, c_flac,
                           <<"0", "1", " ", "-", " ", "h", "e", "l", "l", "o", " ",
                             "w", "o", "r", "l", "d", ".", "w", "a", "v">>}
           /\ out.written
           /\ out.lines = << <<"0", "1", ".", " ", "h", "e", "l", "l", "o", " ",
                               "w", "o", "r", "l", "d">> >>
           /\ \A t \in TaskOf(b_mp3) \cup TaskOf(c_flac) : calls[t] = 3

\* C16: when no task returns a non-null transcript, the coordinator writes no
\* transcript file and reports that no transcriptions were produced.
C16_NoTranscriptionsReported ==
    (/\ entry = "main"
     /\ mainPc \in {"done", "crashed"}
     /\ audio_files # <<>>
     /\ \A t \in Tasks : ~(result[t].kind = "value" /\ result[t].transcription # None))
        => /\ ~out.written
           /\ report = "no_transcriptions"

\* C18: a run that has submitted its tasks ends only after every task has
\* run to completion and the coordinator has reached finalization (lines
\* 157-165). A run that has ended takes no further step, so an end without
\* finalization is a run that never reaches it, however it is scheduled.
C18_RunEndsFinalized ==
    (/\ entry = "main"
     /\ audio_files # <<>>
     /\ mainPc \in {"done", "crashed"})
        => /\ \A t \in Tasks : pc[t] \in Finished
           /\ mainPc = "done"
           /\ report \in {"saved", "no_transcriptions"}

\* C19: for every tuple main submits, process_audio_file returns a 4-tuple
\* (ordinal index, original filename, derived filename or None, transcript
\* or None) and raises nothing, so future.result() never raises in main.
C19_TaskReturnsTuple ==
    entry = "main" =>
        /\ mainPc # "raising"
        /\ \A t \in Tasks :
              pc[t] \in Finished =>
                  /\ result[t].kind = "value"
                  /\ result[t].idx = t
                  /\ result[t].audio_file = audio_files[t + 1]

\* The part of a returned new_name between the "NN - " prefix and the
\* extension: the sanitized prefix of the transcript.
DerivedSuffix(r) ==
    SubSeq(r.new_name, 6, Len(r.new_name) - Len(SplitextExt(r.audio_file)))

AsciiSafeChars == LowerLetters \cup UpperLetters \cup DigitChars \cup {" ", "-", "_", "."}

\* C17 as stated: every character of the sanitized prefix in a derived
\* filename is one of [A-Za-z0-9], space, '-', '_' or '.', and sanitizing it
\* again changes nothing.
C17_AsciiOnly ==
    \A t \in Tasks :
        (result[t].kind = "value" /\ result[t].new_name # None) =>
            LET s == DerivedSuffix(result[t])
            IN  /\ \A i \in 1..Len(s) : s[i] \in AsciiSafeChars
                /\ SafeName(s) = s

\* C17, amended: every character of the sanitized prefix is alphanumeric in
\* the sense of str.isalnum (which holds of letters and digits outside ASCII
\* too), or a space, '-', '_' or '.'; the prefix has at most 50 characters; and
\* sanitizing it again changes nothing.
C17_SanitizedAndIdempotent ==
    \A t \in Tasks :
        (result[t].kind = "value" /\ result[t].new_name # None) =>
            LET s == DerivedSuffix(result[t])
            IN  /\ Len(s) = (IF Len(result[t].transcription) < 50
                             THEN Len(result[t].transcription) ELSE 50)
                /\ \A i \in 1..Len(s) : IsAlnum(s[i]) \/ s[i] \in {" ", "-", "_", "."}
                /\ SafeName(s) = s

\* C17 witness: a derived filename whose sanitized prefix keeps a letter
\* outside ASCII and holds a replaced character.
C17_Witness ==
    \E t \in Tasks :
        /\ result[t].kind = "value"
        /\ result[t].new_name # None
        /\ \E i \in 1..Len(DerivedSuffix(result[t])) :
              /\ DerivedSuffix(result[t])[i] = "_"
              /\ result[t].transcription[i] = "?"
        /\ \E i \in 1..Len(DerivedSuffix(result[t])) : DerivedSuffix(result[t])[i] = "é"

\* A transcript longer than 50 characters has been cut to 50 in a filename.
C17_TruncationHappens ==
    \E t \in Tasks :
        /\ result[t].kind = "value"
        /\ result[t].new_name # None
        /\ Len(result[t].transcription) > 50
        /\ Len(DerivedSuffix(result[t])) = 50


(***************************************************************************)
(* The streaming loop of transcribe_audio (lines 51-68)                    *)
(***************************************************************************)
\* An answer that carries a text which is not blank.
IsSegment(answer) == answer # NoUtterance /\ Strip(answer) # <<>>

\* The text of a whole recording: every non-blank utterance text in read
\* order, then the non-blank final text, each trimmed, joined by one space.
ExpectedText(rec, fault) ==
    LET answers == [i \in 1..(Len(rec.chunks) + 1) |->
                       Heard(fault, IF i <= Len(rec.chunks) THEN rec.chunks[i] ELSE rec.final)]
        kept    == SelectSeq(answers, IsSegment)
    IN  Strip(JoinSpace([i \in 1..Len(kept) |-> Strip(kept[i])]))

\* The call of task t has left the streaming loop and the final result.
StreamDone(t) == session[t].open /\ pc[t] \notin {"feed", "drain"}

\* C13: a temporary WAV that passes the header check is read to its end when
\* neither the reader nor the recognizer raises: the chunks are fed in read
\* order, one after the other, the final result is taken exactly once and
\* only after the last chunk, and the value of the call is the trimmed
\* space-joined sequence of the non-empty utterance texts in read order
\* followed by the non-empty final text.
C13_StreamsAllChunksThenDrains ==
    \A t \in Tasks : session[t].open =>
        LET rec == wav[FileOf(t)]
            ses == session[t]
        IN  /\ ses.finals <= 1
            /\ Len(ses.fed) <= Len(rec.chunks)
            /\ \A i \in 1..Len(ses.fed) : ses.fed[i] = i
            /\ ses.finals = 1 => Len(ses.fed) = Len(rec.chunks)
            /\ (StreamDone(t) /\ PassesCheck(ses.format) /\ ses.fault # "stream")
                   => /\ ses.finals = 1
                      /\ ret[t] = ExpectedText(rec, ses.fault)

\* A two-chunk recording, one chunk ending an utterance and one not, has been
\* read to its end and its final result taken: the call's value is "hi on".
C13_Witness ==
    \E t \in Tasks :
        /\ StreamDone(t) /\ session[t].fault = "none" /\ session[t].finals = 1
        /\ session[t].fed = <<1, 2>>
        /\ session[t].heard = <<<<"h", "i">>, NoUtterance, <<" ", "o", "n", " ">>>>
        /\ ret[t] = <<"h", "i", " ", "o", "n">>

\* C14: a temporary WAV that is not mono, not 16-bit or not at 16000 Hz makes
\* the call return None, and none of its chunks is given to the recognizer.
C14_NonCanonicalRejected ==
    \A t \in Tasks :
        (/\ session[t].open
         /\ \/ session[t].format.nchannels # 1
            \/ session[t].format.sampwidth # 2
            \/ session[t].format.framerate # SampleRate)
            => session[t].fed = <<>> /\ ret[t] = None

====
